---- MODULE Spec2Model ----
(***************************************************************************)
(* Model of the RAG chatbot: the document store (document_store.py), the   *)
(* RAG pipeline (rag_pipeline.py) and the HTTP handlers (main.py).         *)
(*                                                                         *)
(* Strings that the code inspects (document text, chunks) are sequences of *)
(* one-character strings.  The Pinecone service is the variable `indexes`, *)
(* the uploads directory is `uploads`, documents.json is `file`.           *)
(***************************************************************************)
EXTENDS Integers, Sequences, FiniteSets, TLC

\* ------------------------------------------------------------------ bounds
MaxRequests == 4      \* requests received in one run
MaxTextLen == 5       \* length of the texts given to chunk_text
MaxChunkSize == 3     \* chunk sizes given to chunk_text

\* upload_pdf and query_document are `async def` handlers that call the store
\* without awaiting: they run one at a time on the event loop.  delete_document
\* is a plain `def` handler: it runs on a worker thread of the pool.
LoopThread == "loop"
PoolThreads == {"worker"}
Threads == {LoopThread} \cup PoolThreads

\* --------------------------------------------------------------- constants
DefaultChunkSize == 500
index_prefix == "rag-doc-"

Chars == {"a", "b", " "}
Whitespace == {" "}

VARIABLES
    docs,       \* DocumentStore.docs: doc_id -> [filename, index_name, chunks]
    file,       \* uploads/documents.json: [state, data]
    uploads,    \* raw files in the uploads directory: filename -> pdf
    indexes,    \* Pinecone: index name -> set of vector records
    nuuid,      \* number of uuid4() values handed out
    nreq,       \* number of requests received
    th,         \* per request: operation, position, locals, response
    ingested,   \* history: doc_id -> vector records upserted for it
    deleted,    \* history: doc_ids for which delete_document returned True
    raced,      \* history: a registry mutation ran while another was being saved
    ctext, csize, cout, cdone   \* chunk_text called on its own

vars == <<docs, file, uploads, indexes, nuuid, nreq, th, ingested, deleted,
          raced,
          ctext, csize, cout, cdone>>

chunkVars == <<ctext, csize, cout, cdone>>

\* ------------------------------------------------------------ string helpers
Min(a, b) == IF a < b THEN a ELSE b

\* str.split() without arguments: maximal runs of non-whitespace characters
RECURSIVE SplitFrom(_, _, _)
SplitFrom(text, i, cur) ==
    IF i > Len(text)
    THEN IF cur = <<>> THEN <<>> ELSE <<cur>>
    ELSE IF text[i] \in Whitespace
         THEN IF cur = <<>>
              THEN SplitFrom(text, i + 1, <<>>)
              ELSE <<cur>> \o SplitFrom(text, i + 1, <<>>)
         ELSE SplitFrom(text, i + 1, Append(cur, text[i]))

Split(text) == SplitFrom(text, 1, <<>>)

\* sep.join(words)
RECURSIVE Join(_, _)
Join(sep, words) ==
    IF words = <<>> THEN <<>>
    ELSE IF Len(words) = 1 THEN words[1]
    ELSE words[1] \o sep \o Join(sep, Tail(words))

\* words[i:j] with Python's 0-based, end-exclusive, clamped slice
Slice(words, i, j) == SubSeq(words, i + 1, Min(j, Len(words)))

\* range(0, n, step) as the sequence of its values
RangeStep(n, step) == [k \in 1..((n + step - 1) \div step) |-> (k - 1) * step]

\* chunk_text with the slice one word too long: consecutive chunks overlap
chunk_text_overlap(text, chunk_size) ==
    LET words == Split(text)
        starts == RangeStep(Len(words), chunk_size)
    IN  [k \in 1..Len(starts) |->
            Join(<<" ">>, Slice(words, starts[k], starts[k] + chunk_size + 1))]

\* RAGPipeline.chunk_text
chunk_text(text, chunk_size) ==
    LET words == Split(text)
        starts == RangeStep(Len(words), chunk_size)
    IN  [k \in 1..Len(starts) |->
            Join(<<" ">>, Slice(words, starts[k], starts[k] + chunk_size))]

\* RAGPipeline.extract_text_from_pdf, the text of a readable pdf
RECURSIVE ExtractPages(_)
ExtractPages(pages) ==
    IF pages = <<>> THEN <<>>
    ELSE (IF Head(pages) # <<>> THEN Head(pages) \o <<" ">> ELSE <<>>)
         \o ExtractPages(Tail(pages))

\* ------------------------------------------------------------------ inputs
Pdfs == { [ok |-> FALSE, pages |-> <<>>],
          [ok |-> TRUE,  pages |-> <<>>],
          [ok |-> TRUE,  pages |-> << <<"a">> >>],
          [ok |-> TRUE,  pages |-> << <<"b">>, <<" ">> >>] }

Filenames == { <<"report", ".PDF">>, <<"notes", ".txt">> }

Lower(s) == IF s = ".PDF" THEN ".pdf" ELSE s

\* file.filename.lower().endswith(".pdf")
IsPdfName(fn) == Lower(fn[2]) = ".pdf"

Uuid(n) == <<"uuid", n>>
NoId == <<"none", 0>>
NoName == <<"", NoId>>
NoFile == <<"", "">>

\* _make_index_name that ignores doc_id: every document shares one index
MakeIndexNameShared(doc_id) == <<index_prefix, NoId>>

\* DocumentStore._make_index_name
MakeIndexName(doc_id) == <<index_prefix, doc_id>>

EmptyMap == <<>>

\* a removal that removes nothing
RemoveNothing(f, k) == f

\* dict.pop(k) and delete_index(k): the mapping without k
Remove(f, k) == [x \in DOMAIN f \ {k} |-> f[x]]
Put(f, k, v) == (k :> v) @@ f

\* number of serialized entries, the length of the JSON text up to a factor
Size(reg) == Cardinality(DOMAIN reg)

NoFileYet == [state |-> "absent", data |-> EmptyMap]

\* the file as open(docs_file, 'r+') would leave it: not truncated
NotTruncated == file

\* the file after open(docs_file, 'w')
Truncated == [state |-> "empty", data |-> EmptyMap]

\* the bytes of buf written at offset 0 of a file that was truncated at open
Overlay(f, buf) ==
    IF f.state \in {"absent", "empty"} THEN [state |-> "json", data |-> buf]
    ELSE IF f.state = "json" /\ Size(buf) >= Size(f.data)
         THEN [state |-> "json", data |-> buf]
         ELSE [state |-> "garbled", data |-> EmptyMap]

\* index.query(vector, top_k, include_metadata): some of the records stored in
\* the index.  query_document passes the doc_id string as top_k, which puts no
\* numeric limit on the matches; which records come back is the service's choice.
IndexQuery(vectors, top_k) == SUBSET vectors

\* upload_to_pinecone: one record per chunk, each with a fresh uuid
Vectors(chunks, base) ==
    {[id |-> Uuid(base + i), text |-> chunks[i]] : i \in 1..Len(chunks)}

\* DocumentStore.list_documents
list_documents ==
    {[doc_id |-> d, filename |-> docs[d].filename,
      index_name |-> docs[d].index_name, chunks |-> docs[d].chunks] :
        d \in DOMAIN docs}

\* ---------------------------------------------------------------- requests
Idle == [op |-> "none", pc |-> "idle", filename |-> NoFile, doc_id |-> NoId,
         index_name |-> NoName, existing |-> {}, chunks |-> <<>>,
         buf |-> EmptyMap, status |-> 0, error |-> "", sources |-> {},
         answer |-> "", asked |-> FALSE, nomatch |-> FALSE, late |-> FALSE,
         pre_docs |-> EmptyMap, pre_file |-> NoFileYet]

Resting(t) == th[t].pc \in {"idle", "done"}
Quiescent == \A t \in Threads : Resting(t)

SaveWindow == {"save_open", "save_dump", "save_close"}

\* another request is between its change of self.docs and the end of its save
Overlapping(t) == \E u \in Threads \ {t} : th[u].pc \in SaveWindow

\* a request may begin; serial = TRUE admits one request at a time
MayStart(t, serial) ==
    Resting(t) /\ (serial => Quiescent) /\ nreq < MaxRequests

\* upload_pdf: `except Exception` turns every exception raised in the try
\* block, the HTTPException(400) of the file type check included, into a 500
UploadStatus(error) == 500

\* query_document: KeyError becomes 404, any other exception 500
QueryStatus(error) == IF error = "KeyError" THEN 404 ELSE 500

\* delete_document handler: False becomes 404; an exception is not caught
\* and the server answers 500
DeleteStatus(error) == IF error = "NotFound" THEN 404 ELSE 500

StatusOf(op, error) ==
    IF error = "" THEN 200
    ELSE IF op = "add" THEN UploadStatus(error)
    ELSE IF op = "query" THEN QueryStatus(error)
    ELSE DeleteStatus(error)

\* the response of a request; its locals are dropped
Finish(t, error) ==
    LET status == StatusOf(th[t].op, error) IN
    [th EXCEPT ![t] = [Idle EXCEPT !.op = th[t].op, !.pc = "done",
                          !.filename = th[t].filename, !.doc_id = th[t].doc_id,
                          !.late = th[t].late, !.status = status,
                          !.error = error,
                          !.pre_docs = IF status = 200 THEN EmptyMap
                                       ELSE th[t].pre_docs,
                          !.pre_file = IF status = 200 THEN NoFileYet
                                       ELSE th[t].pre_file]]

KnownIds == {Uuid(n) : n \in 0..nuuid}

Init ==
    /\ docs = EmptyMap
    /\ file = NoFileYet
    /\ uploads = EmptyMap
    /\ indexes = EmptyMap
    /\ nuuid = 0
    /\ nreq = 0
    /\ th = [t \in Threads |-> Idle]
    /\ ingested = EmptyMap
    /\ deleted = {}
    /\ raced = FALSE
    /\ ctext = <<>> /\ csize = 1 /\ cout = <<>> /\ cdone = FALSE

\* upload_pdf with a filename that does not end in .pdf: the HTTPException(400)
\* is raised inside the try block and caught by `except Exception`
UploadReject(t, serial) ==
    /\ t = LoopThread
    /\ MayStart(t, serial)
    /\ \E fn \in Filenames :
        /\ ~IsPdfName(fn)
        /\ th' = [th EXCEPT ![t] = [Idle EXCEPT !.op = "add", !.pc = "done",
                     !.filename = fn,
                     !.status = UploadStatus("InvalidFileType"),
                     !.error = "InvalidFileType"]]
    /\ UNCHANGED <<docs, file, uploads, indexes, nuuid, ingested, deleted>>
    /\ nreq' = nreq + 1
    /\ UNCHANGED raced
    /\ UNCHANGED chunkVars

\* upload_pdf -> add_document: copy the raw file, draw doc_id, name the index
AddBegin(t, serial) ==
    /\ t = LoopThread
    /\ MayStart(t, serial)
    /\ \E fn \in Filenames, pdf \in Pdfs :
        /\ IsPdfName(fn)
        /\ uploads' = Put(uploads, fn, pdf)
        /\ nuuid' = nuuid + 1
        /\ th' = [th EXCEPT ![t] = [Idle EXCEPT !.op = "add", !.pc = "list",
                     !.filename = fn, !.doc_id = Uuid(nuuid + 1),
                     !.index_name = MakeIndexName(Uuid(nuuid + 1)),
                     !.pre_docs = docs, !.pre_file = file]]
    /\ UNCHANGED <<docs, file, indexes, ingested, deleted>>
    /\ nreq' = nreq + 1
    /\ UNCHANGED raced
    /\ UNCHANGED chunkVars

\* RAGPipeline._init_index: existing = [i.name for i in pc.list_indexes()]
InitIndexList(t) ==
    /\ th[t].pc = "list"
    /\ \/ th' = [th EXCEPT ![t].pc = "create", ![t].existing = DOMAIN indexes]
       \/ th' = Finish(t, "IndexFailure")
    /\ UNCHANGED <<docs, file, uploads, indexes, nuuid, ingested, deleted>>
    /\ UNCHANGED <<nreq, raced>>
    /\ UNCHANGED chunkVars

AfterInit(t) == IF th[t].op = "add" THEN "process" ELSE "search"

\* RAGPipeline._init_index: create_index unless the name was listed
InitIndexCreate(t) ==
    /\ th[t].pc = "create"
    /\ IF th[t].index_name \in th[t].existing
       THEN /\ th' = [th EXCEPT ![t].pc = AfterInit(t)]
            /\ UNCHANGED indexes
       ELSE \/ /\ th[t].index_name \notin DOMAIN indexes
               /\ indexes' = Put(indexes, th[t].index_name, {})
               /\ th' = [th EXCEPT ![t].pc = AfterInit(t)]
            \/ /\ th' = Finish(t, "IndexFailure")
               /\ UNCHANGED indexes
    /\ UNCHANGED <<docs, file, uploads, nuuid, ingested, deleted>>
    /\ UNCHANGED <<nreq, raced>>
    /\ UNCHANGED chunkVars

\* process_document up to the upsert: extract, chunk, embed
Process(t) ==
    /\ th[t].pc = "process"
    /\ LET pdf == uploads[th[t].filename] IN
       IF ~pdf.ok
       THEN th' = Finish(t, "ExtractionFailure")
       ELSE \/ th' = [th EXCEPT ![t].pc = "upsert",
                        ![t].chunks = chunk_text(ExtractPages(pdf.pages),
                                                 DefaultChunkSize)]
            \/ th' = Finish(t, "EmbeddingFailure")
    /\ UNCHANGED <<docs, file, uploads, indexes, nuuid, ingested, deleted>>
    /\ UNCHANGED <<nreq, raced>>
    /\ UNCHANGED chunkVars

\* upsert with the registry entry written before the call
UpsertRegistered(t) ==
    /\ th[t].pc = "upsert"
    /\ docs' = Put(docs, th[t].doc_id,
                   [filename |-> th[t].filename,
                    index_name |-> th[t].index_name,
                    chunks |-> Len(th[t].chunks)])
    /\ th' = Finish(t, "IndexFailure")
    /\ UNCHANGED <<file, uploads, indexes, nuuid, nreq, ingested, deleted, raced>>
    /\ UNCHANGED chunkVars

\* upload_to_pinecone: index.upsert(vectors)
Upsert(t) ==
    /\ th[t].pc = "upsert"
    /\ \/ /\ th[t].index_name \in DOMAIN indexes
          /\ indexes' = [indexes EXCEPT ![th[t].index_name] =
                            @ \cup Vectors(th[t].chunks, nuuid)]
          /\ nuuid' = nuuid + Len(th[t].chunks)
          /\ ingested' = Put(ingested, th[t].doc_id,
                             Vectors(th[t].chunks, nuuid))
          /\ th' = [th EXCEPT ![t].pc = "register"]
       \/ /\ th' = Finish(t, "IndexFailure")
          /\ UNCHANGED <<indexes, nuuid, ingested>>
    /\ UNCHANGED <<docs, file, uploads, deleted>>
    /\ UNCHANGED <<nreq, raced>>
    /\ UNCHANGED chunkVars

\* add_document: self.docs[doc_id] = {...}
Register(t) ==
    /\ th[t].pc = "register"
    /\ docs' = Put(docs, th[t].doc_id,
                   [filename |-> th[t].filename,
                    index_name |-> th[t].index_name,
                    chunks |-> Len(th[t].chunks)])
    /\ th' = [th EXCEPT ![t].pc = "save_open"]
    /\ UNCHANGED <<file, uploads, indexes, nuuid, ingested, deleted>>
    /\ raced' = (raced \/ Overlapping(t))
    /\ UNCHANGED nreq
    /\ UNCHANGED chunkVars

\* _save_docs: open(docs_file, 'w') truncates the file
SaveOpen(t) ==
    /\ th[t].pc = "save_open"
    /\ file' = Truncated
    /\ th' = [th EXCEPT ![t].pc = "save_dump"]
    /\ UNCHANGED <<docs, uploads, indexes, nuuid, ingested, deleted>>
    /\ raced' = (raced \/ Overlapping(t))
    /\ UNCHANGED nreq
    /\ UNCHANGED chunkVars

\* _save_docs: json.dump serializes self.docs into the file object's buffer
SaveDump(t) ==
    /\ th[t].pc = "save_dump"
    /\ th' = [th EXCEPT ![t].pc = "save_close", ![t].buf = docs]
    /\ UNCHANGED <<docs, file, uploads, indexes, nuuid, ingested, deleted>>
    /\ raced' = (raced \/ Overlapping(t))
    /\ UNCHANGED nreq
    /\ UNCHANGED chunkVars

\* _save_docs: leaving the with block flushes the buffer and closes the file;
\* add_document then returns doc_id, delete_document returns True
SaveClose(t) ==
    /\ th[t].pc = "save_close"
    /\ file' = Overlay(file, th[t].buf)
    /\ th' = Finish(t, "")
    /\ deleted' = IF th[t].op = "delete" THEN deleted \cup {th[t].doc_id}
                  ELSE deleted
    /\ UNCHANGED <<docs, uploads, indexes, nuuid, ingested>>
    /\ raced' = (raced \/ Overlapping(t))
    /\ UNCHANGED nreq
    /\ UNCHANGED chunkVars

\* query_document -> get_rag_pipeline: KeyError unless doc_id is registered
QueryBegin(t, serial) ==
    /\ t = LoopThread
    /\ MayStart(t, serial)
    /\ \E d \in KnownIds :
        IF d \notin DOMAIN docs
        THEN th' = [th EXCEPT ![t] = [Idle EXCEPT !.op = "query",
                        !.pc = "done", !.doc_id = d,
                        !.status = QueryStatus("KeyError"),
                        !.error = "KeyError",
                        !.late = d \in deleted]]
        ELSE th' = [th EXCEPT ![t] = [Idle EXCEPT !.op = "query",
                        !.pc = "list", !.doc_id = d,
                        !.index_name = docs[d].index_name,
                        !.late = d \in deleted]]
    /\ UNCHANGED <<docs, file, uploads, indexes, nuuid, ingested, deleted>>
    /\ nreq' = nreq + 1
    /\ UNCHANGED raced
    /\ UNCHANGED chunkVars

\* RAGPipeline.query as called by query_document: rag.query(question, doc_id)
\* binds doc_id to top_k; embed, index.query, _build_prompt, _ask_groq
Search(t) ==
    /\ th[t].pc = "search"
    /\ \/ \E err \in {"EmbeddingFailure", "IndexFailure"} :
             th' = Finish(t, err)
       \/ /\ th[t].index_name \in DOMAIN indexes
          /\ \E matches \in IndexQuery(indexes[th[t].index_name], th[t].doc_id) :
              LET contexts == {m.text : m \in matches} IN
              \/ th' = [Finish(t, "") EXCEPT
                           ![t].sources = contexts, ![t].answer = "generated",
                           ![t].asked = TRUE, ![t].nomatch = (matches = {})]
              \/ th' = [Finish(t, "GenerationFailure") EXCEPT
                           ![t].asked = TRUE, ![t].nomatch = (matches = {})]
    /\ UNCHANGED <<docs, file, uploads, indexes, nuuid, ingested, deleted>>
    /\ UNCHANGED <<nreq, raced>>
    /\ UNCHANGED chunkVars

\* delete_document (handler and store): False, mapped to 404, if unknown
DeleteBegin(t, serial) ==
    /\ t \in PoolThreads
    /\ MayStart(t, serial)
    /\ \E d \in KnownIds :
        IF d \notin DOMAIN docs
        THEN th' = [th EXCEPT ![t] = [Idle EXCEPT !.op = "delete",
                        !.pc = "done", !.doc_id = d,
                        !.status = DeleteStatus("NotFound"),
                        !.error = "NotFound"]]
        ELSE th' = [th EXCEPT ![t] = [Idle EXCEPT !.op = "delete",
                        !.pc = "delete_index", !.doc_id = d,
                        !.index_name = docs[d].index_name]]
    /\ UNCHANGED <<docs, file, uploads, indexes, nuuid, ingested, deleted>>
    /\ nreq' = nreq + 1
    /\ UNCHANGED raced
    /\ UNCHANGED chunkVars

\* delete_document: self.pc.delete_index(index_name)
DeleteIndex(t) ==
    /\ th[t].pc = "delete_index"
    /\ \/ /\ th[t].index_name \in DOMAIN indexes
          /\ indexes' = Remove(indexes, th[t].index_name)
          /\ th' = [th EXCEPT ![t].pc = "pop"]
       \/ /\ th' = Finish(t, "IndexFailure")
          /\ UNCHANGED indexes
    /\ UNCHANGED <<docs, file, uploads, nuuid, ingested, deleted>>
    /\ UNCHANGED <<nreq, raced>>
    /\ UNCHANGED chunkVars

\* delete_document: self.docs.pop(doc_id)
Pop(t) ==
    /\ th[t].pc = "pop"
    /\ IF th[t].doc_id \in DOMAIN docs
       THEN /\ docs' = Remove(docs, th[t].doc_id)
            /\ th' = [th EXCEPT ![t].pc = "save_open"]
       ELSE /\ th' = Finish(t, "KeyError")
            /\ UNCHANGED docs
    /\ UNCHANGED <<file, uploads, indexes, nuuid, ingested, deleted>>
    /\ raced' = (raced \/ Overlapping(t))
    /\ UNCHANGED nreq
    /\ UNCHANGED chunkVars

Step(t) ==
    \/ InitIndexList(t)
    \/ InitIndexCreate(t)
    \/ Process(t)
    \/ Upsert(t)
    \/ Register(t)
    \/ SaveOpen(t)
    \/ SaveDump(t)
    \/ SaveClose(t)
    \/ Search(t)
    \/ DeleteIndex(t)
    \/ Pop(t)

Begin(t, serial) ==
    \/ UploadReject(t, serial)
    \/ AddBegin(t, serial)
    \/ QueryBegin(t, serial)
    \/ DeleteBegin(t, serial)

\* one request at a time
Next == \E t \in Threads : Begin(t, TRUE) \/ Step(t)

Spec == Init /\ [][Next]_vars

\* requests overlap
NextConc == \E t \in Threads : Begin(t, FALSE) \/ Step(t)

SpecConc == Init /\ [][NextConc]_vars

\* chunk_text called on its own with any text and chunk size
Texts == UNION {[1..n -> Chars] : n \in 0..MaxTextLen}

InitChunk ==
    /\ docs = EmptyMap
    /\ file = NoFileYet
    /\ uploads = EmptyMap
    /\ indexes = EmptyMap
    /\ nuuid = 0
    /\ nreq = 0
    /\ th = [t \in Threads |-> Idle]
    /\ ingested = EmptyMap
    /\ deleted = {}
    /\ raced = FALSE
    /\ ctext \in Texts
    /\ csize \in 1..MaxChunkSize
    /\ cout = <<>>
    /\ cdone = FALSE

ChunkCall ==
    /\ ~cdone
    /\ cout' = chunk_text(ctext, csize)
    /\ cdone' = TRUE
    /\ UNCHANGED <<ctext, csize>>
    /\ UNCHANGED <<docs, file, uploads, indexes, nuuid, nreq, th, ingested,
                   deleted, raced>>

NextChunk == ChunkCall

SpecChunk == InitChunk /\ [][NextChunk]_vars

\* ------------------------------------------------------------------ claims
Done(t, op) == th[t].op = op /\ th[t].pc = "done"

IngestFailures == {"ExtractionFailure", "EmbeddingFailure", "IndexFailure"}

\* the request of t ends in this step
Ends(t) == th[t].pc # "done" /\ th'[t].pc = "done"

\* C1: when add_document fails in extraction, embedding, index creation or
\* upsert, self.docs and documents.json are what they were before the call
C1_FailedAddLeavesRegistry ==
    [][\A t \in Threads :
         (Ends(t) /\ th'[t].op = "add" /\ th'[t].error \in IngestFailures)
           => /\ docs' = th'[t].pre_docs
              /\ file' = th'[t].pre_file
              /\ th'[t].doc_id \notin DOMAIN docs'
              /\ th'[t].doc_id \notin DOMAIN file'.data]_vars

\* an add_document failed while the registry already held a saved document
C1_Witness ==
    \E t \in Threads :
        /\ Done(t, "add") /\ th[t].error = "IndexFailure"
        /\ th[t].pre_docs # EmptyMap
        /\ th[t].pre_file.state = "json"
        /\ docs = th[t].pre_docs

IssuedIds == {Uuid(n) : n \in 1..nuuid}

FullyPresent(d) ==
    /\ d \in DOMAIN docs
    /\ docs[d].index_name \in DOMAIN indexes
    /\ indexes[docs[d].index_name] # {}

FullyAbsent(d) ==
    /\ d \notin DOMAIN docs
    /\ MakeIndexName(d) \notin DOMAIN indexes

\* C2: when no call is in progress every doc_id is fully present (registry
\* entry and vectors) or fully absent (no registry entry, no index)
C2_PresentOrAbsent ==
    Quiescent => \A d \in IssuedIds : FullyPresent(d) \/ FullyAbsent(d)

Texts_of(vectors) == {v.text : v \in vectors}

\* C3: the sources of a successful query for a document are texts of chunks
\* that were ingested for that document
C3_SourcesFromOwnDocument ==
    \A t \in Threads :
        (Done(t, "query") /\ th[t].status = 200)
          => /\ th[t].doc_id \in DOMAIN ingested
             /\ th[t].sources \subseteq Texts_of(ingested[th[t].doc_id])

\* a query for A returned a source while B, with a text A lacks, is registered
C3_Witness ==
    \E t \in Threads : \E b \in DOMAIN docs :
        /\ Done(t, "query") /\ th[t].status = 200
        /\ th[t].sources # {}
        /\ th[t].doc_id \in DOMAIN docs
        /\ b # th[t].doc_id
        /\ Texts_of(ingested[b]) \ Texts_of(ingested[th[t].doc_id]) # {}

\* C4: once delete_document(d) has returned True no vector ingested for d is
\* in any index, list_documents lacks d, and a later query for d gets 404
C4_DeletedIsGone ==
    \A d \in deleted :
        /\ \A name \in DOMAIN indexes : indexes[name] \cap ingested[d] = {}
        /\ d \notin {r.doc_id : r \in list_documents}
        /\ \A t \in Threads :
             (Done(t, "query") /\ th[t].doc_id = d /\ th[t].late)
               => th[t].status = 404 /\ th[t].error = "KeyError"

\* a document that had vectors was deleted and then queried
C4_Witness ==
    \E t \in Threads :
        /\ Done(t, "query") /\ th[t].late
        /\ th[t].doc_id \in deleted
        /\ ingested[th[t].doc_id] # {}

Fallback == "No relevant content found in this document."

\* C5: a query whose similarity search returns no matches answers with the
\* fixed fallback and no sources, without calling the generator or failing
C5_FallbackOnNoMatch ==
    \A t \in Threads :
        (Done(t, "query") /\ th[t].nomatch)
          => /\ th[t].status = 200
             /\ th[t].answer = Fallback
             /\ th[t].sources = {}
             /\ ~th[t].asked

\* C6: no document with chunk count 0 is recorded in the registry
C6_NoZeroChunkDocument ==
    /\ \A d \in DOMAIN docs : docs[d].chunks # 0
    /\ \A d \in DOMAIN file.data : file.data[d].chunks # 0

CeilDiv(n, c) == IF n % c = 0 THEN n \div c ELSE (n \div c) + 1

RECURSIVE Flatten(_)
Flatten(seqs) == IF seqs = <<>> THEN <<>> ELSE Head(seqs) \o Flatten(Tail(seqs))

\* C7: chunk_text(text, C) returns ceil(N/C) chunks of at most C tokens, all
\* but the last of exactly C, whose tokens in order are the tokens of text
C7_ChunkText ==
    cdone =>
        LET words == Split(ctext)
            parts == [k \in 1..Len(cout) |-> Split(cout[k])]
        IN  /\ Len(cout) = CeilDiv(Len(words), csize)
            /\ \A k \in 1..Len(cout) :
                 /\ Len(parts[k]) <= csize
                 /\ k < Len(cout) => Len(parts[k]) = csize
            /\ Flatten(parts) = words

\* a text was cut into several chunks, the last one shorter than the others
C7_Witness ==
    /\ cdone
    /\ Len(cout) >= 2
    /\ Len(Split(ctext)) % csize # 0
    /\ Len(Split(cout[1])) >= 2

\* C8: a non-pdf upload gets 400 and changes nothing, a query for an unknown
\* doc_id gets 404, every other failure gets 500 with its message
C8_StatusByKind ==
    \A t \in Threads :
        th[t].pc = "done" =>
            /\ th[t].error = "InvalidFileType" => th[t].status = 400
            /\ (th[t].op = "query" /\ th[t].error = "KeyError")
                 => th[t].status = 404
            /\ th[t].error \in IngestFailures \cup {"GenerationFailure"}
                 => th[t].status = 500

Persisted(reg) ==
    IF reg = EmptyMap
    THEN {NoFileYet, [state |-> "json", data |-> EmptyMap]}
    ELSE {[state |-> "json", data |-> reg]}

\* C9: when no call is in progress and documents.json differs from the
\* registry that results from the completed mutations, two mutations overlapped
C9_LostUpdateOnlyWhenOverlapping ==
    (Quiescent /\ file \notin Persisted(docs)) => raced

\* delete_document returned True for a document that documents.json still lists
C9_Witness ==
    \E t \in Threads :
        /\ Quiescent
        /\ Done(t, "delete") /\ th[t].status = 200
        /\ file.state = "json"
        /\ th[t].doc_id \in DOMAIN file.data
        /\ th[t].doc_id \notin DOMAIN docs

\* C10: after a query for d and a delete_document(d) that returned True have
\* both finished, no index exists for d
C10_QueryNeverRecreatesIndex ==
    \A q \in Threads : \A r \in Threads :
        (/\ Done(q, "query")
         /\ Done(r, "delete") /\ th[r].status = 200
         /\ th[q].doc_id = th[r].doc_id)
          => MakeIndexName(th[r].doc_id) \notin DOMAIN indexes

====
